---- MODULE Spec2Model ----
(***************************************************************************)
(* Model of the documentation build scripts: the process runner            *)
(* utils.pexec (script/utils.py), the stage function md_pdf.md2pdf /       *)
(* md_pdf.build_pdf (script/md_pdf.py) and the top-level loop of           *)
(* script/md2pdf.py.                                                       *)
(*                                                                         *)
(* The child process and the kernel pipes are the environment of pexec:    *)
(* the child writes whole lines to its two streams, closes each stream     *)
(* (explicitly, or as the first part of exiting) and then becomes          *)
(* waitable.  pexec is cut at its system calls: select, each readline of   *)
(* the for loop, and the test/processing that follows the for loop.        *)
(*                                                                         *)
(* A line is identified by <<stream, index>> (its place in what the child  *)
(* wrote); its text is one of the kinds of Lines.  Texts are taken without *)
(* leading or trailing blanks other than the newline, so that str.strip()  *)
(* only acts on newlines and on blank lines.  Patterns are literal texts   *)
(* without anchors and without newlines, so re.search(item, out) finds the *)
(* pattern in out exactly when it finds it in one of the lines of out.     *)
(***************************************************************************)
EXTENDS Integers, Sequences, FiniteSets, TLC

\* Total number of lines the child writes (both streams together).
MaxLines == 2

Streams == {"stdout", "stderr"}

\* The texts a child line can have:
\*   text      "ok"                        matches nothing
\*   warn      "warning: x"                a noisy warning
\*   summary   "Errors: 3, Warnings: 5"    the summary line
\*   errhalf   "Errors: 3,"                matches nothing on its own
\*   warnhalf  "Warnings: 5"               matches nothing of the summary pattern on its own
\*   blank     ""                          an empty line
Lines == {"text", "warn", "summary", "errhalf", "warnhalf", "blank"}

\* The suppression patterns used: 'warn' and 'arn'.
Patterns == {"warn", "arn"}

\* The pattern lists pexec is called with (filter=[] is the default).
Filters == {<<>>, <<"warn">>, <<"warn", "arn">>}

\* Exit codes of the child.
ExitCodes == {0, 7}

\* A Python value that is None or an integer: None is <<>>, the integer c is <<c>>.
None == <<>>
Code(c) == <<c>>

VARIABLES
    \* ---- the child process and the pipes (environment of pexec)
    written,      \* written[s]: the lines the child wrote to stream s, in order
    closed,       \* closed[s]: the child's end of the pipe s is closed
    returncode,   \* p.returncode as the kernel has it: None while the child runs
    nread,        \* nread[s]: lines moved from the pipe into p.<s>'s text buffer
    ntaken,       \* ntaken[s]: lines returned by p.<s>.readline()
    \* ---- pexec
    filter,       \* the suppression pattern list
    pc,           \* position of pexec
    rlist,        \* streams select reported and the for loop has still to read
    out,          \* the lines read in this iteration, concatenated
    supp_warn,    \* the suppressed-lines buffer: one entry per suppressed out
    console,      \* what print() wrote, one entry per call
    log,          \* the file <wdir>/suppresed-warnings.log
    logWrites,    \* number of times this run opened the log for writing
    rcode,        \* the value pexec returns
    \* ---- the orchestrator (md2pdf.py)
    orchPc,       \* position of the orchestrator
    idx,          \* index in seq of the target being built
    calls,        \* the runner calls made: <<target, return code>>
    exitStatus    \* the status the orchestrator process ends with

childVars == <<written, closed, returncode, nread, ntaken>>
pexecVars == <<filter, pc, rlist, out, supp_warn, console, log, logWrites, rcode>>
orchVars  == <<orchPc, idx, calls, exitStatus>>
vars      == <<childVars, pexecVars, orchVars>>

----------------------------------------------------------------------------
\* Helpers on sequences

RECURSIVE Flatten(_)
Flatten(ss) == IF ss = <<>> THEN <<>> ELSE Head(ss) \o Flatten(Tail(ss))

IsPrefix(a, b) == Len(a) <= Len(b) /\ SubSeq(b, 1, Len(a)) = a

Count(seq, x) == Cardinality({i \in 1..Len(seq) : seq[i] = x})

Total(f) == Len(f["stdout"]) + Len(f["stderr"])

\* The text of the line r = <<stream, index>>.
TextOf(r) == written[r[1]][r[2]]

----------------------------------------------------------------------------
\* The log file

NoFile == [exists |-> FALSE, content |-> <<>>]
\* A log left by an earlier run (one stale record).
OldLog == [exists |-> TRUE, content |-> << <<"old", 1>> >>]

----------------------------------------------------------------------------
\* pexec: the pure part of one loop iteration (utils.py lines 53-73)

\* The lines a pattern is found in.
Matches(item) ==
    CASE item = "warn" -> {"warn"}
      [] item = "arn"  -> {"warn", "summary", "warnhalf"}

\* re.search(item, out): out is the concatenation of the lines read in this
\* iteration, so the pattern is found when one of them holds it.
Search(item, o) == \E i \in 1..Len(o) : TextOf(o[i]) \in Matches(item)

\* The filter loop without its break: every pattern found in out appends out.
RECURSIVE FilterLoopNoBreak(_, _, _)
FilterLoopNoBreak(items, o, sw) ==
    IF items = <<>> THEN [supp_warn |-> sw, match |-> FALSE]
    ELSE IF Search(Head(items), o)
         THEN [supp_warn |-> FilterLoopNoBreak(Tail(items), o, Append(sw, o)).supp_warn,
               match |-> TRUE]
         ELSE FilterLoopNoBreak(Tail(items), o, sw)

\* Lines 56-60: the first pattern found in out appends out to supp_warn, sets
\* match and leaves the loop.
RECURSIVE FilterLoop(_, _, _)
FilterLoop(items, o, sw) ==
    IF items = <<>> THEN [supp_warn |-> sw, match |-> FALSE]
    ELSE IF Search(Head(items), o)
         THEN [supp_warn |-> Append(sw, o), match |-> TRUE]
         ELSE FilterLoop(Tail(items), o, sw)

NoMatch == [found |-> FALSE, src |-> <<>>, errors |-> 0, warn |-> 0]

\* Line 62: re.search(r'(Errors\:\s\d+,\sWarnings\:\s)(\d+)', out), the
\* leftmost match in the concatenated text.  \s also matches the newline that
\* joins two lines, so "Errors: 3," followed by "Warnings: 5" matches too.
RECURSIVE SummarySearchFrom(_, _)
SummarySearchFrom(o, i) ==
    IF i > Len(o) THEN NoMatch
    ELSE IF TextOf(o[i]) = "summary"
         THEN [found |-> TRUE, src |-> <<o[i]>>, errors |-> 3, warn |-> 5]
    ELSE IF TextOf(o[i]) = "errhalf" /\ i < Len(o) /\ TextOf(o[i + 1]) = "warnhalf"
         THEN [found |-> TRUE, src |-> <<o[i], o[i + 1]>>, errors |-> 3, warn |-> 5]
    ELSE SummarySearchFrom(o, i + 1)

SummarySearch(o) == SummarySearchFrom(o, 1)

\* Lines 64-66: the text that replaces out.
Rewritten(res, sw) ==
    [form |-> "summary", src |-> res.src, errors |-> res.errors,
     warnings |-> res.warn - Len(sw), suppressed |-> Len(sw)]

\* A log write that keeps only the item suppressed last.
LogContentLast(sw) ==
    [exists |-> TRUE, content |-> IF sw = <<>> THEN <<>> ELSE sw[Len(sw)]]

\* Lines 68-70: the log holds every item of supp_warn, written with "%s".
LogContent(sw) == [exists |-> TRUE, content |-> Flatten(sw)]

\* out.strip(): leading and trailing newlines go, and with them leading and
\* trailing empty lines.
RECURSIVE StripLeft(_)
StripLeft(o) ==
    IF o # <<>> /\ TextOf(Head(o)) = "blank" THEN StripLeft(Tail(o)) ELSE o

RECURSIVE StripRight(_)
StripRight(o) ==
    IF o # <<>> /\ TextOf(o[Len(o)]) = "blank"
    THEN StripRight(SubSeq(o, 1, Len(o) - 1)) ELSE o

Strip(o) == StripRight(StripLeft(o))

\* Line 73: print(out.strip()) of an out that was not rewritten.  An out of
\* empty lines only prints one empty line.
Printed(o) ==
    [form |-> "lines", src |-> IF Strip(o) = <<>> THEN <<o[1]>> ELSE Strip(o),
     errors |-> 0, warnings |-> 0, suppressed |-> 0]

\* Lines 54-73 for a non-empty out: the new supp_warn, console, log.
Body(flt, o, sw, con, lg, lw) ==
    IF flt = <<>>
    THEN [supp_warn |-> sw, console |-> Append(con, Printed(o)),
          log |-> lg, logWrites |-> lw]
    ELSE LET fl  == FilterLoop(flt, o, sw)
             res == SummarySearch(o)
             ln  == IF res.found THEN Rewritten(res, fl.supp_warn) ELSE Printed(o)
         IN  [supp_warn |-> fl.supp_warn,
              console   |-> IF fl.match THEN con ELSE Append(con, ln),
              log       |-> IF res.found THEN LogContent(fl.supp_warn) ELSE lg,
              logWrites |-> IF res.found THEN lw + 1 ELSE lw]

\* p.poll(): None while the child runs, then its exit code.
Poll == returncode

\* The loop test without the poll: an iteration that read nothing ends the loop.
LoopEndsNoPoll(o) == Len(o) = 0

\* Line 51: the test that leaves the loop.
LoopEnds(o) == Len(o) = 0 /\ Poll # None

----------------------------------------------------------------------------
\* The child process and the pipes

\* The child writes one line to a stream it has not closed.
ChildWrite(s, l) ==
    /\ pc # "idle"
    /\ returncode = None
    /\ ~closed[s]
    /\ Total(written) < MaxLines
    /\ written' = [written EXCEPT ![s] = Append(@, l)]
    /\ UNCHANGED <<closed, returncode, nread, ntaken, pexecVars, orchVars>>

\* The child's end of a pipe closes: by the child itself, or by the kernel as
\* the child exits (one descriptor after the other).
ChildClose(s) ==
    /\ pc # "idle"
    /\ returncode = None
    /\ ~closed[s]
    /\ closed' = [closed EXCEPT ![s] = TRUE]
    /\ UNCHANGED <<written, returncode, nread, ntaken, pexecVars, orchVars>>

\* The child has exited with code c and can be polled; its descriptors are
\* closed by then.
ChildExit(c) ==
    /\ pc # "idle"
    /\ returncode = None
    /\ \A s \in Streams : closed[s]
    /\ returncode' = Code(c)
    /\ UNCHANGED <<written, closed, nread, ntaken, pexecVars, orchVars>>

----------------------------------------------------------------------------
\* pexec: the loop (utils.py lines 42-77)

\* select() reports a pipe that holds data or is at end-of-file.  It looks at
\* the pipe, not at the text buffer of p.stdout / p.stderr.
Ready(s) == nread[s] < Len(written[s]) \/ closed[s]

ReadyList ==
    (IF Ready("stdout") THEN <<"stdout">> ELSE <<>>)
        \o (IF Ready("stderr") THEN <<"stderr">> ELSE <<>>)

\* Line 43-44: select blocks until a stream is ready.
Select ==
    /\ pc = "select"
    /\ ReadyList # <<>>
    /\ rlist' = ReadyList
    /\ out' = <<>>
    /\ pc' = "for"
    /\ UNCHANGED <<childVars, filter, supp_warn, console, log, logWrites, rcode, orchVars>>

\* Lines 45-49: out += readline() of the next stream of rlist.  readline serves
\* a buffered line first; with an empty buffer it reads what the pipe holds
\* into the buffer and returns the first line of it; at end-of-file it returns ''.
Readline ==
    /\ pc = "for"
    /\ rlist # <<>>
    /\ LET s == Head(rlist) IN
       /\ ntaken[s] < nread[s] \/ Ready(s)
       /\ IF ntaken[s] < nread[s]
          THEN /\ out' = Append(out, <<s, ntaken[s] + 1>>)
               /\ ntaken' = [ntaken EXCEPT ![s] = @ + 1]
               /\ nread' = nread
          ELSE IF nread[s] < Len(written[s])
          THEN /\ out' = Append(out, <<s, ntaken[s] + 1>>)
               /\ ntaken' = [ntaken EXCEPT ![s] = @ + 1]
               /\ nread' = [nread EXCEPT ![s] = Len(written[s])]
          ELSE /\ out' = out
               /\ UNCHANGED <<ntaken, nread>>
    /\ rlist' = Tail(rlist)
    /\ UNCHANGED <<written, closed, returncode, filter, pc, supp_warn, console,
                   log, logWrites, rcode, orchVars>>

\* Lines 51-53 with an empty out and a running child: next iteration.
Again ==
    /\ pc = "for" /\ rlist = <<>>
    /\ out = <<>>
    /\ ~LoopEnds(out)
    /\ pc' = "select"
    /\ UNCHANGED <<childVars, filter, rlist, out, supp_warn, console, log,
                   logWrites, rcode, orchVars>>

\* Lines 51-52: break.
Break ==
    /\ pc = "for" /\ rlist = <<>>
    /\ LoopEnds(out)
    /\ pc' = "break"
    /\ UNCHANGED <<childVars, filter, rlist, out, supp_warn, console, log,
                   logWrites, rcode, orchVars>>

\* Lines 53-73: the lines read in this iteration are filtered and printed.
\* (out is not read again before line 44 sets it to '', so it is emptied here.)
Process ==
    /\ pc = "for" /\ rlist = <<>>
    /\ out # <<>>
    /\ ~LoopEnds(out)
    /\ LET b == Body(filter, out, supp_warn, console, log, logWrites) IN
       /\ supp_warn' = b.supp_warn
       /\ console' = b.console
       /\ log' = b.log
       /\ logWrites' = b.logWrites
    /\ out' = <<>>
    /\ pc' = "select"
    /\ UNCHANGED <<childVars, filter, rlist, rcode, orchVars>>

\* Lines 75-77: rcode = p.poll(); return rcode.
Return ==
    /\ pc = "break"
    /\ rcode' = Poll
    /\ pc' = "done"
    /\ UNCHANGED <<childVars, filter, rlist, out, supp_warn, console, log,
                   logWrites, orchVars>>

PexecNext ==
    \/ \E s \in Streams, l \in Lines : ChildWrite(s, l)
    \/ \E s \in Streams : ChildClose(s)
    \/ \E c \in ExitCodes : ChildExit(c)
    \/ Select
    \/ Readline
    \/ Again
    \/ Break
    \/ Process
    \/ Return

\* The state right after Popen (lines 32-41).
Started(flt, lg) ==
    /\ written = [s \in Streams |-> <<>>]
    /\ closed = [s \in Streams |-> FALSE]
    /\ returncode = None
    /\ nread = [s \in Streams |-> 0]
    /\ ntaken = [s \in Streams |-> 0]
    /\ filter = flt
    /\ pc = "select"
    /\ rlist = <<>>
    /\ out = <<>>
    /\ supp_warn = <<>>
    /\ console = <<>>
    /\ log = lg
    /\ logWrites = 0
    /\ rcode = None

\* pexec called on its own, with any pattern list.
Init ==
    /\ \E flt \in Filters, lg \in {NoFile, OldLog} : Started(flt, lg)
    /\ orchPc = "none"
    /\ idx = 1
    /\ calls = <<>>
    /\ exitStatus = None

Next == PexecNext

Spec == Init /\ [][Next]_vars

----------------------------------------------------------------------------
\* The orchestrator: md2pdf.py lines 43-60, md_pdf.py lines 99-128

\* md2pdf.py lines 43-47: the targets, in order.
seq == <<"scmrtos-en", "scmrtos-ru">>

\* md_pdf.py lines 114-121: md2pdf returns False when rc is non-zero, else True.
md2pdf(rc) == IF rc # Code(0) THEN FALSE ELSE TRUE

\* md_pdf.py lines 124-128: build_pdf returns what md2pdf returns, a bool.
build_pdf(rc) == md2pdf(rc)

\* `status, res = value` needs an iterable of two items; a bool is none.
Unpackable(v) == v \notin BOOLEAN

\* md2pdf.py line 56, md_pdf.py lines 99-114: the loop calls build_pdf for the
\* next target, which starts the runner with the default, empty pattern list.
OrchCall ==
    /\ orchPc = "loop"
    /\ idx <= Len(seq)
    /\ pc = "idle"
    /\ written' = [s \in Streams |-> <<>>]
    /\ closed' = [s \in Streams |-> FALSE]
    /\ returncode' = None
    /\ nread' = [s \in Streams |-> 0]
    /\ ntaken' = [s \in Streams |-> 0]
    /\ filter' = <<>>
    /\ pc' = "select"
    /\ rlist' = <<>>
    /\ out' = <<>>
    /\ supp_warn' = <<>>
    /\ console' = <<>>
    /\ logWrites' = 0
    /\ rcode' = None
    /\ orchPc' = "pexec"
    /\ UNCHANGED <<log, idx, calls, exitStatus>>

\* md2pdf.py lines 56-60 once the runner has returned: the value of build_pdf
\* is unpacked into status and res.  An uncaught exception (the TypeError of
\* unpacking a bool; the NameError of move_file, which utils does not define)
\* ends the interpreter with status 1; sys.exit(-1) ends it with -1; the end
\* of the loop ends it with 0.
OrchReturn ==
    /\ orchPc = "pexec"
    /\ pc = "done"
    /\ LET ret == build_pdf(rcode) IN
       /\ calls' = Append(calls, <<seq[idx], rcode>>)
       /\ IF ~Unpackable(ret)
          THEN /\ orchPc' = "exited"
               /\ exitStatus' = Code(1)
               /\ idx' = idx
          ELSE IF ret[1]
          THEN /\ orchPc' = "exited"
               /\ exitStatus' = Code(1)
               /\ idx' = idx
          ELSE /\ orchPc' = "exited"
               /\ exitStatus' = Code(-1)
               /\ idx' = idx
    /\ pc' = "idle"
    /\ UNCHANGED <<childVars, filter, rlist, out, supp_warn, console, log,
                   logWrites, rcode>>

\* The orchestrator before its loop; no runner is active.
OrchInit ==
    /\ written = [s \in Streams |-> <<>>]
    /\ closed = [s \in Streams |-> FALSE]
    /\ returncode = None
    /\ nread = [s \in Streams |-> 0]
    /\ ntaken = [s \in Streams |-> 0]
    /\ filter = <<>>
    /\ pc = "idle"
    /\ rlist = <<>>
    /\ out = <<>>
    /\ supp_warn = <<>>
    /\ console = <<>>
    /\ log \in {NoFile, OldLog}
    /\ logWrites = 0
    /\ rcode = None
    /\ orchPc = "loop"
    /\ idx = 1
    /\ calls = <<>>
    /\ exitStatus = None

OrchNext == PexecNext \/ OrchCall \/ OrchReturn

OrchSpec == OrchInit /\ [][OrchNext]_vars

\* pexec under a fair scheduler: the runner's own steps are taken when they
\* stay possible.  Nothing is assumed of the child.
FairSpec ==
    Spec /\ WF_vars(Select) /\ WF_vars(Readline) /\ WF_vars(Again)
         /\ WF_vars(Break) /\ WF_vars(Process) /\ WF_vars(Return)

----------------------------------------------------------------------------
\* Vocabulary of the properties

\* The lines readline has returned so far.
TakenLines == {r \in Streams \X (1..MaxLines + 1) : r[2] <= ntaken[r[1]]}

\* r was read in the iteration that is not processed yet.
Pending(r) == pc = "for" /\ \E i \in 1..Len(out) : out[i] = r

\* The line holds one of the patterns of the list.
MatchesAny(flt, r) == \E i \in 1..Len(flt) : TextOf(r) \in Matches(flt[i])

\* The child's lines the console shows, in console order.
ConsoleLines == Flatten([i \in 1..Len(console) |-> console[i].src])

OnStream(lines, s) == SelectSeq(lines, LAMBDA r : r[1] = s)

\* The lines of the stream s that hold no pattern, as the child wrote them.
Unsuppressed(s) ==
    SelectSeq([i \in 1..Len(written[s]) |-> <<s, i>>],
              LAMBDA r : ~MatchesAny(filter, r))

\* The lines in the suppressed-lines buffer, in suppression order.
SuppressedLines == Flatten(supp_warn)

\* This step is the processing of the lines of one iteration (lines 53-73).
ProcessStep == pc = "for" /\ rlist = <<>> /\ out # <<>> /\ pc' = "select"

\* A summary line "Errors: X, Warnings: Y" is among the lines being processed.
SummaryRead == \E i \in 1..Len(out) : TextOf(out[i]) = "summary"

----------------------------------------------------------------------------
\* C1: when pexec returns, the console restricted to each stream is exactly
\* that stream's lines that hold no suppression pattern, in the order the child
\* wrote them (a rewritten summary line stands for the line it rewrites).
C1_ConsolePerStream ==
    pc = "done" =>
        \A s \in Streams : OnStream(ConsoleLines, s) = Unsuppressed(s)

C3_SummaryRewrite ==
    [][(ProcessStep /\ filter # <<>> /\ SummaryRead) =>
          \A i \in 1..Len(out) :
              TextOf(out[i]) = "summary" =>
                  /\ Len(console') = Len(console) + 1
                  /\ console'[Len(console')] =
                        [form |-> "summary", src |-> <<out[i]>>, errors |-> 3,
                         warnings |-> 5 - Len(SuppressedLines),
                         suppressed |-> Len(SuppressedLines)]]_vars

\* C4 as stated: each time a summary line is processed, whatever the pattern
\* list, the log becomes exactly the lines suppressed so far, and a later
\* write of the run extends the earlier one.
C4_LogOnEverySummary ==
    [][(ProcessStep /\ SummaryRead) =>
          /\ log' = [exists |-> TRUE, content |-> SuppressedLines']
          /\ logWrites > 0 => IsPrefix(log.content, log'.content)]_vars

\* C4 amended: with a non-empty pattern list, each time a summary line is
\* processed the log becomes exactly the lines in the suppressed-lines buffer
\* (those of this iteration included), in suppression order, replacing what
\* the file held; a later write of the run has the earlier one as a prefix.
C4_LogIsSuppressedLines ==
    [][(ProcessStep /\ filter # <<>> /\ SummaryRead) =>
          /\ log' = [exists |-> TRUE, content |-> SuppressedLines']
          /\ logWrites' = logWrites + 1
          /\ logWrites > 0 => IsPrefix(log.content, log'.content)]_vars

\* The log was written twice in the run and the second write added a line.
C4_Witness ==
    /\ filter # <<>>
    /\ logWrites = 2
    /\ Len(log.content) = 2
    /\ log.content = SuppressedLines

\* C5: pexec leaves its loop and returns only after the child has exited, and
\* returns the child's exit code, never None.
C5_ReturnsExitCode ==
    /\ pc \in {"break", "done"} => returncode # None
    /\ pc = "done" => rcode # None /\ rcode = returncode /\ rcode[1] \in ExitCodes

\* pexec returned 7 for a child that exited with 7 after writing a line.
C5_Witness ==
    pc = "done" /\ rcode = Code(7) /\ returncode = Code(7) /\ Total(written) > 0

\* C6: while no line read is a summary line, the run has not written the log.
C6_NoSummaryNoLog ==
    (\A r \in TakenLines : TextOf(r) # "summary") => logWrites = 0

\* C7: with the empty pattern list nothing is suppressed, every line read is
\* on the console once its iteration was processed, and no line is rewritten.
C7_EmptyFilter ==
    filter = <<>> =>
        /\ supp_warn = <<>>
        /\ \A r \in TakenLines : ~Pending(r) => Count(ConsoleLines, r) = 1
        /\ \A i \in 1..Len(console) : console[i].form = "lines"

\* C8: whenever the log is written, the rewritten summary line is printed.
C8_RewrittenIsPrinted ==
    [][logWrites' = logWrites + 1 =>
          /\ Len(console') = Len(console) + 1
          /\ console'[Len(console')].form = "summary"]_vars

\* C9: the loop is left only with the child exited, and by then every line the
\* child wrote has been read.
C9_LoopEnd ==
    pc \in {"break", "done"} =>
        /\ returncode # None
        /\ \A s \in Streams : ntaken[s] = Len(written[s])

\* C9, the part on termination: once the child has exited, pexec returns.
C9_Terminates == (returncode # None) ~> (pc = "done")

\* C10: when the orchestrator has ended, the runner was called for the targets
\* in the order of seq, each call but the last returned zero, a non-zero return
\* ended it with status -1, and with only zero returns every target was built.
C10_Orchestrator ==
    orchPc = "exited" =>
        /\ Len(calls) <= Len(seq)
        /\ \A i \in 1..Len(calls) :
              /\ calls[i][1] = seq[i]
              /\ i < Len(calls) => calls[i][2] = Code(0)
        /\ IF \E i \in 1..Len(calls) : calls[i][2] # Code(0)
           THEN exitStatus = Code(-1)
           ELSE Len(calls) = Len(seq)

====
